---- MODULE Spec2Model ----
(***************************************************************************)
(* A model of the note summarizer (src/src/main.rs): Note::from_string,    *)
(* get_md_files, read_md_file, construct_prompt, llm and main.             *)
(*                                                                         *)
(* Text is a sequence of one-character strings, so that starts_with,       *)
(* splitn, trim and push_str act on characters as they do in the program.  *)
(***************************************************************************)
EXTENDS Integers, Sequences, FiniteSets, TLC

VARIABLES
    env,          \* the process environment: URL_LLM, MODEL_LLM, PATH_NOTES
    fs,           \* the notes directory: whether it lists, and its entries
    pc,           \* main's position
    url_llm,      \* main's local, line 123
    model_llm,    \* main's local, line 124
    path_to_dir,  \* main's local, line 125
    md_files,     \* the files still to be visited by the loop of line 131
    content,      \* main's local, line 132
    notes,        \* main's local, line 130
    prompt,       \* main's local, line 139
    requests,     \* the requests put on the wire, oldest first
    net,          \* what the transport delivered for the request in flight
    response,     \* the Result returned by llm
    stdout,       \* the characters written to standard output
    outcome,      \* "running", "ok", or the kind of the failure that ended the run
    exit_code,    \* -1 while running, then the process's exit status
    arg,          \* the text handed to Note::from_string on its own
    ret           \* what Note::from_string returned for arg

vars ==
    << env, fs, pc, url_llm, model_llm, path_to_dir, md_files, content, notes,
       prompt, requests, net, response, stdout, outcome, exit_code, arg, ret >>

(***************************************************************************)
(* Bounds of the model.                                                    *)
(***************************************************************************)
\* The longest text handed to from_string on its own, counted in tokens.
MaxTokens == 6

\* The most entries the notes directory holds.
MaxEntries == 2

(***************************************************************************)
(* Text.                                                                   *)
(***************************************************************************)
\* Characters with the Unicode White_Space property that the model uses.
WhiteSpace == {" ", "\n", "\t"}

starts_with(s, p) ==
    /\ Len(s) >= Len(p)
    /\ SubSeq(s, 1, Len(p)) = p

ends_with(s, p) ==
    /\ Len(s) >= Len(p)
    /\ SubSeq(s, Len(s) - Len(p) + 1, Len(s)) = p

\* The least index >= from at which p occurs in s, or 0.
RECURSIVE find_from(_, _, _)
find_from(s, p, from) ==
    IF from + Len(p) - 1 > Len(s) THEN 0
    ELSE IF SubSeq(s, from, from + Len(p) - 1) = p THEN from
    ELSE find_from(s, p, from + 1)

\* str::splitn(n, pat): at most n parts, split at the leftmost occurrences of
\* pat, which do not overlap; the last part is the rest of the text.
RECURSIVE splitn(_, _, _)
splitn(n, s, p) ==
    IF n = 0 THEN << >>
    ELSE IF n = 1 THEN << s >>
    ELSE LET i == find_from(s, p, 1)
         IN  IF i = 0 THEN << s >>
             ELSE << SubSeq(s, 1, i - 1) >>
                    \o splitn(n - 1, SubSeq(s, i + Len(p), Len(s)), p)

RECURSIVE trim_start(_)
trim_start(s) ==
    IF s # << >> /\ Head(s) \in WhiteSpace THEN trim_start(Tail(s)) ELSE s

RECURSIVE trim_end(_)
trim_end(s) ==
    IF s # << >> /\ s[Len(s)] \in WhiteSpace
    THEN trim_end(SubSeq(s, 1, Len(s) - 1))
    ELSE s

\* str::trim
trim(s) == trim_end(trim_start(s))

\* Display of a non-negative integer, as format!("{}", n) writes it.
Digits == << "0", "1", "2", "3", "4", "5", "6", "7", "8", "9" >>

RECURSIVE to_string(_)
to_string(n) ==
    IF n < 10 THEN << Digits[n + 1] >>
    ELSE to_string(n \div 10) \o << Digits[(n % 10) + 1] >>

(***************************************************************************)
(* Note::from_string.                                                      *)
(***************************************************************************)
Marker == << "-", "-", "-" >>

\* A Note, or the panic of the assert! of line 39.
Note(frontmatter, body) ==
    [panicked |-> FALSE, frontmatter |-> frontmatter, content |-> body]

AssertFailed == [panicked |-> TRUE, frontmatter |-> << >>, content |-> << >>]

\* Mutants of from_string.
from_string_untrimmed(note) ==
    IF starts_with(note, Marker)
    THEN LET parts == splitn(3, note, Marker)
         IN  IF ~(Len(parts) > 2) THEN AssertFailed
             ELSE Note(trim(parts[2]), parts[3])
    ELSE Note(<< >>, note)

from_string_trims_plain(note) ==
    IF starts_with(note, Marker)
    THEN LET parts == splitn(3, note, Marker)
         IN  IF ~(Len(parts) > 2) THEN AssertFailed
             ELSE Note(trim(parts[2]), trim(parts[3]))
    ELSE Note(<< >>, trim(note))

from_string_contains(note) ==
    IF find_from(note, Marker, 1) # 0
    THEN LET parts == splitn(3, note, Marker)
         IN  IF ~(Len(parts) > 2) THEN AssertFailed
             ELSE Note(trim(parts[2]), trim(parts[3]))
    ELSE Note(<< >>, note)

from_string(note) ==
    IF starts_with(note, Marker)
    THEN LET parts == splitn(3, note, Marker)
         IN  IF ~(Len(parts) > 2) THEN AssertFailed
             ELSE Note(trim(parts[2]), trim(parts[3]))
    ELSE Note(<< >>, note)

(***************************************************************************)
(* The environment: configuration, the notes directory, the service.       *)
(***************************************************************************)
URL_LLM == "http://localhost:11434/api/generate"

MODEL_LLM == "llama3:instruct"

PATH_TO_DIR == << ".", "/", "n", "o", "t", "e", "s" >>

\* An environment variable is << >> when unset and << value >> when set.
Envs ==
    [URL_LLM    : {<< >>, << "http://llm.test/api/generate" >>},
     MODEL_LLM  : {<< >>, << "mistral" >>},
     PATH_NOTES : {<< >>, << << "/", "n" >> >>}]

\* Option::unwrap_or_else over env::var
unwrap_or_else(var, default) == IF var = << >> THEN default ELSE var[1]

\* The texts the files of the notes directory hold.
DocFrontmatter ==
    << "-", "-", "-", "\n", "k", "\n", "-", "-", "-", "\n", "H" >>

DocPlain == << "T", " " >>

DocMalformed == << "-", "-", "-", "\n", "x" >>

DocEmpty == << >>

Docs == {DocFrontmatter, DocPlain, DocMalformed, DocEmpty}

MdName == << "n", ".", "m", "d" >>

TxtName == << "n", ".", "t", "x", "t" >>

MdSuffix == << ".", "m", "d" >>

Entry(name, is_file, readable, text) ==
    [name |-> name, is_file |-> is_file, readable |-> readable, text |-> text]

Entries ==
    { Entry(MdName, TRUE, TRUE, d) : d \in Docs }
      \cup { Entry(MdName, TRUE, FALSE, << >>),
             Entry(TxtName, TRUE, TRUE, DocPlain),
             Entry(MdName, FALSE, FALSE, << >>) }

RECURSIVE SeqsUpTo(_, _)
SeqsUpTo(S, k) ==
    IF k = 0 THEN {<< >>}
    ELSE LET prev == SeqsUpTo(S, k - 1)
         IN  prev \cup { Append(q, x) : q \in prev, x \in S }

Directories ==
    { [listable |-> TRUE, entries |-> es] : es \in SeqsUpTo(Entries, MaxEntries) }
      \cup { [listable |-> FALSE, entries |-> << >>] }

(***************************************************************************)
(* construct_prompt.                                                       *)
(***************************************************************************)
note_delimiter ==
    << "=", "=", "=", "\n", "-", "-", "-", "\n", "=", "=", "=", "\n" >>

\* The format string of line 83, before and after its {}.
preprompt_head ==
    << "S", "u", "m", "m", "a", "r", "i", "z", "e", " ", "t", "h", "e", " ", "f", "o",
       "l", "l", "o", "w", "i", "n", "g", " ", "n", "o", "t", "e", "s", " ", "d", "e",
       "l", "i", "m", "i", "t", "e", "d", " ", "b", "y", " ", "'" >>

preprompt_tail == << "'", ":", " ", "\n" >>

\* Mutant of preprompt_summary: the delimiter is named, not quoted.
preprompt_summary_unquoted ==
    preprompt_head \o << "=", "=", "=" >> \o preprompt_tail

preprompt_summary == preprompt_head \o note_delimiter \o preprompt_tail

postprompt_summary ==
    << "o", "k", "a", "y", " ", "n", "o", "w", " ", "y", "o", "u", " ", "h", "a", "v",
       "e", " ", "a", "l", "l", " ", "m", "y", " ", "n", "o", "t", "e", "s", ",", " ",
       "s", "u", "m", "m", "a", "r", "i", "z", "e", " ", "t", "h", "e", "m", " ", "f",
       "o", "r", " ", "m", "e", ".", " ", "a", "n", "d", " ", "i", "g", "n", "o", "r",
       "e", " ", "t", "h", "e", " ", "d", "e", "l", "i", "m", "i", "t", "e", "r", " ",
       "p", "l", "e", "a", "s", "e", "\n" >>

\* The loop of lines 89-92 over the notes left, acting on the prompt so far.
RECURSIVE push_notes(_, _)
push_notes(p, ns) ==
    IF ns = << >> THEN p
    ELSE push_notes(p \o Head(ns).content \o note_delimiter, Tail(ns))

\* Mutant of construct_prompt: the delimiter separates the notes and does not
\* follow the last one.
RECURSIVE join_notes(_, _)
join_notes(p, ns) ==
    IF ns = << >> THEN p
    ELSE IF Len(ns) = 1 THEN p \o Head(ns).content
    ELSE join_notes(p \o Head(ns).content \o note_delimiter, Tail(ns))

construct_prompt_joined(ns) ==
    join_notes(preprompt_summary, ns) \o postprompt_summary

construct_prompt(ns) ==
    push_notes(preprompt_summary, ns) \o postprompt_summary

(***************************************************************************)
(* llm: the request, the response, and its decoding into LLMResponse.      *)
(***************************************************************************)
\* A JSON value is its type and its value; an object maps names to values.
JStr(v) == [t |-> "string", v |-> v]

JBool(v) == [t |-> "bool", v |-> v]

JInt(v) == [t |-> "int", v |-> v]

JFloat(v) == [t |-> "float", v |-> v]

JInts(v) == [t |-> "array_int", v |-> v]

JStrs(v) == [t |-> "array_string", v |-> v]

JNull == [t |-> "null", v |-> << >>]

SummaryX == << "S", "u", "m", "m", "a", "r", "y", " ", "X" >>

Partial == << "p", "a", "r", "t" >>

BodyComplete ==
    [json |-> TRUE,
     obj  |-> [model |-> JStr("llama3:instruct"), created_at |-> JStr("t0"),
               response |-> JStr(SummaryX), done |-> JBool(TRUE),
               context |-> JInts(<< 1, 2 >>), total_duration |-> JInt(5),
               load_duration |-> JFloat(1), prompt_eval_count |-> JInt(2),
               prompt_eval_duration |-> JInt(1), eval_count |-> JInt(3),
               eval_duration |-> JInt(2), err |-> JNull]]

\* No err member, an unknown member, and done = false.
BodyNotDone ==
    [json |-> TRUE,
     obj  |-> [model |-> JStr("mistral"), created_at |-> JStr("t1"),
               response |-> JStr(Partial), done |-> JBool(FALSE),
               context |-> JInts(<< >>), total_duration |-> JFloat(5),
               load_duration |-> JInt(1), prompt_eval_count |-> JInt(2),
               prompt_eval_duration |-> JInt(1), eval_count |-> JInt(3),
               eval_duration |-> JInt(2), done_reason |-> JStr("length")]]

\* No response member.
BodyMissingField ==
    [json |-> TRUE,
     obj  |-> [model |-> JStr("llama3:instruct"), created_at |-> JStr("t0"),
               done |-> JBool(TRUE),
               context |-> JInts(<< 1, 2 >>), total_duration |-> JInt(5),
               load_duration |-> JFloat(1), prompt_eval_count |-> JInt(2),
               prompt_eval_duration |-> JInt(1), eval_count |-> JInt(3),
               eval_duration |-> JInt(2), err |-> JStr("e")]]

\* context is an array of strings.
BodyWrongType ==
    [json |-> TRUE,
     obj  |-> [model |-> JStr("llama3:instruct"), created_at |-> JStr("t0"),
               response |-> JStr(SummaryX), done |-> JBool(TRUE),
               context |-> JStrs(<< "1" >>), total_duration |-> JInt(5),
               load_duration |-> JFloat(1), prompt_eval_count |-> JInt(2),
               prompt_eval_duration |-> JInt(1), eval_count |-> JInt(3),
               eval_duration |-> JInt(2), err |-> JNull]]

\* Not a JSON object at all.
BodyNotJson == [json |-> FALSE, obj |-> << >>]

Bodies ==
    {BodyComplete, BodyNotDone, BodyMissingField, BodyWrongType, BodyNotJson}

Statuses == {200, 299, 300, 500}

\* What the transport can deliver for one request.
Delivered(status, body) == [delivered |-> TRUE, status |-> status, body |-> body]

NotDelivered == [delivered |-> FALSE, status |-> 0, body |-> BodyNotJson]

NetOutcomes ==
    { Delivered(s, b) : s \in Statuses, b \in Bodies } \cup {NotDelivered}

NoNet == [delivered |-> FALSE, status |-> -1, body |-> BodyNotJson]

\* struct LLMResponse: the JSON types serde accepts for each member.
Accepts ==
    [model |-> {"string"}, created_at |-> {"string"}, response |-> {"string"},
     done |-> {"bool"}, context |-> {"array_int"},
     total_duration |-> {"int", "float"}, load_duration |-> {"int", "float"},
     prompt_eval_count |-> {"int"}, prompt_eval_duration |-> {"int", "float"},
     eval_count |-> {"int"}, eval_duration |-> {"int", "float"}]

\* The derived Deserialize of LLMResponse: every member but err must be there
\* with an accepted type; err may be absent, null or a string.
deserializes(body) ==
    /\ body.json
    /\ \A f \in DOMAIN Accepts :
          /\ f \in DOMAIN body.obj
          /\ body.obj[f].t \in Accepts[f]
    /\ "err" \in DOMAIN body.obj => body.obj["err"].t \in {"null", "string"}

\* The LLMResponse decoded from a body that deserializes; err is an Option.
from_json(body) ==
    [f \in DOMAIN Accepts \cup {"err"} |->
        IF f = "err"
        THEN IF "err" \in DOMAIN body.obj /\ body.obj["err"].t = "string"
             THEN << body.obj["err"].v >>
             ELSE << >>
        ELSE body.obj[f].v]

\* Result<LLMResponse, Box<dyn Error>>: value holds the LLMResponse when ok.
Ok(v) == [ok |-> TRUE, value |-> << v >>, err |-> "none"]

Err(kind) == [ok |-> FALSE, value |-> << >>, err |-> kind]

NoResult == [ok |-> FALSE, value |-> << >>, err |-> "pending"]

\* StatusCode::is_success
is_success(status) == 200 <= status /\ status <= 299

\* The request of lines 103-110.
request(url, model, text) ==
    [method |-> "POST", url |-> url, content_type |-> "application/json",
     json |-> [model |-> model, prompt |-> text, stream |-> FALSE]]

\* Mutants of llm_result.
llm_result_only_200(n) ==
    IF ~n.delivered THEN Err("TransportError")
    ELSE IF n.status = 200
         THEN IF deserializes(n.body) THEN Ok(from_json(n.body))
              ELSE Err("ResponseDecodeError")
         ELSE Err("GenerationRequestFailed")

llm_result_ignores_status(n) ==
    IF ~n.delivered THEN Err("TransportError")
    ELSE IF deserializes(n.body) THEN Ok(from_json(n.body))
    ELSE IF is_success(n.status) THEN Err("ResponseDecodeError")
    ELSE Err("GenerationRequestFailed")

\* Lines 112-119: what llm returns for what the transport delivered.
llm_result(n) ==
    IF ~n.delivered THEN Err("TransportError")
    ELSE IF is_success(n.status)
         THEN IF deserializes(n.body) THEN Ok(from_json(n.body))
              ELSE Err("ResponseDecodeError")
         ELSE Err("GenerationRequestFailed")

(***************************************************************************)
(* main.                                                                   *)
(***************************************************************************)
LoadingPrefix ==
    << "l", "o", "a", "d", "i", "n", "g", " ", "n", "o", "t", "e", "s", " ", "f", "r",
       "o", "m", ":", " " >>

GotPrefix == << "g", "o", "t", " " >>

GotSuffix == << " ", "n", "o", "t", "e", "s" >>

\* println!: the text and a line feed.
println(text) == text \o << "\n" >>

\* get_md_files: the entries that are files whose path ends with ".md", in
\* the order read_dir yields them. A path is the entry's place in fs.entries.
get_md_files(dir) ==
    SelectSeq([i \in 1 .. Len(dir.entries) |-> i],
              LAMBDA i : /\ dir.entries[i].is_file
                         /\ ends_with(dir.entries[i].name, MdSuffix))

\* A panic: the process ends with status 101 and nothing more is written.
Panic(kind) ==
    /\ pc' = "panicked"
    /\ outcome' = kind
    /\ exit_code' = 101

\* Lines 123-127.
Configure ==
    /\ pc = "main"
    /\ url_llm' = unwrap_or_else(env.URL_LLM, URL_LLM)
    /\ model_llm' = unwrap_or_else(env.MODEL_LLM, MODEL_LLM)
    /\ path_to_dir' = unwrap_or_else(env.PATH_NOTES, PATH_TO_DIR)
    /\ stdout' = stdout \o println(LoadingPrefix \o path_to_dir')
    /\ pc' = "get_md_files"
    /\ UNCHANGED << env, fs, md_files, content, notes, prompt, requests, net,
                    response, outcome, exit_code, arg, ret >>

\* Lines 129-130: read_dir's unwrap panics when the directory does not list.
GetMdFiles ==
    /\ pc = "get_md_files"
    /\ IF fs.listable
       THEN /\ md_files' = get_md_files(fs)
            /\ notes' = << >>
            /\ pc' = "loop"
            /\ UNCHANGED << outcome, exit_code >>
       ELSE /\ Panic("DirListError")
            /\ UNCHANGED << md_files, notes >>
    /\ UNCHANGED << env, fs, url_llm, model_llm, path_to_dir, content, prompt,
                    requests, net, response, stdout, arg, ret >>

\* Lines 131-132 and read_md_file: the next file is opened and read whole.
ReadMdFile ==
    /\ pc = "loop"
    /\ md_files # << >>
    /\ LET file == fs.entries[Head(md_files)]
       IN  IF file.readable
           THEN /\ content' = file.text
                /\ md_files' = Tail(md_files)
                /\ pc' = "from_string"
                /\ UNCHANGED << outcome, exit_code >>
           ELSE /\ Panic("FileReadError")
                /\ UNCHANGED << content, md_files >>
    /\ UNCHANGED << env, fs, url_llm, model_llm, path_to_dir, notes, prompt,
                    requests, net, response, stdout, arg, ret >>

\* Mutant of FromString: a malformed document is skipped.
FromStringSkips ==
    /\ pc = "from_string"
    /\ LET note == from_string(content)
       IN  /\ notes' = IF note.panicked THEN notes ELSE Append(notes, note)
           /\ pc' = "loop"
    /\ UNCHANGED << env, fs, url_llm, model_llm, path_to_dir, md_files, content,
                    prompt, requests, net, response, stdout, outcome, exit_code,
                    arg, ret >>

\* Lines 133-134.
FromString ==
    /\ pc = "from_string"
    /\ LET note == from_string(content)
       IN  IF note.panicked
           THEN /\ Panic("MalformedDocument")
                /\ UNCHANGED notes
           ELSE /\ notes' = Append(notes, note)
                /\ pc' = "loop"
                /\ UNCHANGED << outcome, exit_code >>
    /\ UNCHANGED << env, fs, url_llm, model_llm, path_to_dir, md_files, content,
                    prompt, requests, net, response, stdout, arg, ret >>

\* Line 137, once the loop has visited every file.
PrintCount ==
    /\ pc = "loop"
    /\ md_files = << >>
    /\ stdout' = stdout \o println(GotPrefix \o to_string(Len(notes)) \o GotSuffix)
    /\ pc' = "construct_prompt"
    /\ UNCHANGED << env, fs, url_llm, model_llm, path_to_dir, md_files, content,
                    notes, prompt, requests, net, response, outcome, exit_code,
                    arg, ret >>

\* Line 139.
ConstructPrompt ==
    /\ pc = "construct_prompt"
    /\ prompt' = construct_prompt(notes)
    /\ pc' = "llm"
    /\ UNCHANGED << env, fs, url_llm, model_llm, path_to_dir, md_files, content,
                    notes, requests, net, response, stdout, outcome, exit_code,
                    arg, ret >>

\* Lines 141-146 and 102-111: llm is entered and its request is sent.
LlmSend ==
    /\ pc = "llm"
    /\ requests' = Append(requests, request(url_llm, model_llm, prompt))
    /\ pc' = "await"
    /\ UNCHANGED << env, fs, url_llm, model_llm, path_to_dir, md_files, content,
                    notes, prompt, net, response, stdout, outcome, exit_code,
                    arg, ret >>

\* The transport resolves the one request in flight (the .await of line 112).
Transport ==
    /\ pc = "await"
    /\ net' \in NetOutcomes
    /\ pc' = "llm_return"
    /\ UNCHANGED << env, fs, url_llm, model_llm, path_to_dir, md_files, content,
                    notes, prompt, requests, response, stdout, outcome,
                    exit_code, arg, ret >>

\* Lines 112-119: llm returns.
LlmReturn ==
    /\ pc = "llm_return"
    /\ response' = llm_result(net)
    /\ pc' = "unwrap"
    /\ UNCHANGED << env, fs, url_llm, model_llm, path_to_dir, md_files, content,
                    notes, prompt, requests, net, stdout, outcome, exit_code,
                    arg, ret >>

\* Mutant of Unwrap: a transport error sends the request once more.
UnwrapRetries ==
    /\ pc = "unwrap"
    /\ IF response.ok
       THEN /\ pc' = "println"
            /\ UNCHANGED << outcome, exit_code >>
       ELSE IF response.err = "TransportError" /\ Len(requests) < 2
       THEN /\ pc' = "llm"
            /\ UNCHANGED << outcome, exit_code >>
       ELSE Panic(response.err)
    /\ UNCHANGED << env, fs, url_llm, model_llm, path_to_dir, md_files, content,
                    notes, prompt, requests, net, response, stdout, arg, ret >>

\* Line 147: unwrap panics on Err.
Unwrap ==
    /\ pc = "unwrap"
    /\ IF response.ok
       THEN /\ pc' = "println"
            /\ UNCHANGED << outcome, exit_code >>
       ELSE Panic(response.err)
    /\ UNCHANGED << env, fs, url_llm, model_llm, path_to_dir, md_files, content,
                    notes, prompt, requests, net, response, stdout, arg, ret >>

\* Mutant of PrintResponse: the line feed is left out.
PrintResponseNoLineFeed ==
    /\ pc = "println"
    /\ stdout' = stdout \o response.value[1].response
    /\ pc' = "done"
    /\ outcome' = "ok"
    /\ exit_code' = 0
    /\ UNCHANGED << env, fs, url_llm, model_llm, path_to_dir, md_files, content,
                    notes, prompt, requests, net, response, arg, ret >>

\* Line 148, and main's return.
PrintResponse ==
    /\ pc = "println"
    /\ stdout' = stdout \o println(response.value[1].response)
    /\ pc' = "done"
    /\ outcome' = "ok"
    /\ exit_code' = 0
    /\ UNCHANGED << env, fs, url_llm, model_llm, path_to_dir, md_files, content,
                    notes, prompt, requests, net, response, arg, ret >>

\* The state as main is entered; the locals hold nothing yet.
Idle ==
    /\ pc = "main"
    /\ url_llm = ""
    /\ model_llm = ""
    /\ path_to_dir = << >>
    /\ md_files = << >>
    /\ content = << >>
    /\ notes = << >>
    /\ prompt = << >>
    /\ requests = << >>
    /\ net = NoNet
    /\ response = NoResult
    /\ stdout = << >>
    /\ outcome = "running"
    /\ exit_code = -1

Init ==
    /\ env \in Envs
    /\ fs \in Directories
    /\ Idle
    /\ arg = << >>
    /\ ret = << >>

Next ==
    \/ Configure
    \/ GetMdFiles
    \/ ReadMdFile
    \/ FromString
    \/ PrintCount
    \/ ConstructPrompt
    \/ LlmSend
    \/ Transport
    \/ LlmReturn
    \/ Unwrap
    \/ PrintResponse

Spec == Init /\ [][Next]_vars

(***************************************************************************)
(* Note::from_string on its own, over every text of the bounded set.       *)
(***************************************************************************)
Tokens == { Marker, << "-" >>, << " " >>, << "\n" >>, << "a" >> }

RECURSIVE TextsUpTo(_)
TextsUpTo(k) ==
    IF k = 0 THEN {<< >>}
    ELSE LET prev == TextsUpTo(k - 1)
         IN  prev \cup { t \o tok : t \in prev, tok \in Tokens }

Inputs == TextsUpTo(MaxTokens)

\* ret is << >> until from_string has returned, then << its result >>.
CallFromString ==
    /\ ret = << >>
    /\ ret' = << from_string(arg) >>
    /\ UNCHANGED << arg, env, fs, pc, url_llm, model_llm, path_to_dir, md_files,
                    content, notes, prompt, requests, net, response, stdout,
                    outcome, exit_code >>

InitParse ==
    /\ arg \in Inputs
    /\ ret = << >>
    /\ env = [URL_LLM |-> << >>, MODEL_LLM |-> << >>, PATH_NOTES |-> << >>]
    /\ fs = [listable |-> TRUE, entries |-> << >>]
    /\ Idle

NextParse == CallFromString

SpecParse == InitParse /\ [][NextParse]_vars

(***************************************************************************)
(* What the properties below speak of.                                     *)
(***************************************************************************)
\* The places where p occurs in s.
Occurrences(p, s) ==
    { i \in 1 .. Len(s) : /\ i + Len(p) - 1 <= Len(s)
                          /\ SubSeq(s, i, i + Len(p) - 1) = p }

\* The text opens with the marker.
LeadingMarker(s) == Len(s) >= 3 /\ SubSeq(s, 1, 3) = Marker

\* The places of the markers that follow the opening one.
LaterMarkers(s) == { j \in Occurrences(Marker, s) : j >= 4 }

SecondMarker(s) ==
    CHOOSE j \in LaterMarkers(s) : \A k \in LaterMarkers(s) : j <= k

\* t is s without the white space at its two ends.
IsTrimOf(t, s) ==
    \E a \in 0 .. Len(s) :
        \E b \in a .. Len(s) :
            /\ t = SubSeq(s, a + 1, b)
            /\ \A i \in 1 .. a : s[i] \in WhiteSpace
            /\ \A i \in (b + 1) .. Len(s) : s[i] \in WhiteSpace
            /\ t # << >> => t[1] \notin WhiteSpace /\ t[Len(t)] \notin WhiteSpace

\* s with the character w put in before place i.
Insert(s, i, w) == SubSeq(s, 1, i - 1) \o << w >> \o SubSeq(s, i, Len(s))

\* C1: a text that opens with the marker and holds a later marker parses to
\* the trimmed text between the first two markers and the trimmed rest (later
\* markers stay in the body), and white space put in around the two markers
\* or at the end changes nothing.
C1_FrontmatterSplit ==
    (ret # << >> /\ LeadingMarker(arg) /\ LaterMarkers(arg) # {}) =>
        LET j == SecondMarker(arg)
            r == ret[1]
        IN  /\ ~r.panicked
            /\ IsTrimOf(r.frontmatter, SubSeq(arg, 4, j - 1))
            /\ IsTrimOf(r.content, SubSeq(arg, j + 3, Len(arg)))
            /\ \A w \in WhiteSpace :
                  \A i \in {4, j, j + 3, Len(arg) + 1} :
                      from_string(Insert(arg, i, w)) = r

C1_Witness ==
    /\ ret # << >>
    /\ LeadingMarker(arg)
    /\ LaterMarkers(arg) # {}
    /\ arg[4] \in WhiteSpace
    /\ ret[1].frontmatter = << "a" >>
    /\ Occurrences(Marker, ret[1].content) # {}

\* C2: a text that does not open with the marker parses to empty metadata
\* and a body that is the text itself, character for character.
C2_PlainTextVerbatim ==
    (ret # << >> /\ ~LeadingMarker(arg)) =>
        /\ ~ret[1].panicked
        /\ ret[1].frontmatter = << >>
        /\ ret[1].content = arg

C2_Witness ==
    /\ ret # << >>
    /\ Len(arg) >= 5
    /\ arg[1] \in WhiteSpace
    /\ SubSeq(arg, 2, 4) = Marker
    /\ arg[Len(arg)] \in WhiteSpace
    /\ ret[1].content = arg

\* C3: parsing fails exactly when the text opens with the marker and splitting
\* it on the marker into at most three parts yields fewer than three, which is
\* when no marker follows the opening one; any other text parses.
C3_MalformedExactly ==
    ret # << >> =>
        /\ ret[1].panicked <=>
              (LeadingMarker(arg) /\ Len(splitn(3, arg, Marker)) < 3)
        /\ LeadingMarker(arg) =>
              (Len(splitn(3, arg, Marker)) < 3 <=> LaterMarkers(arg) = {})

C3_Witness ==
    /\ ret # << >>
    /\ ret[1].panicked
    /\ Len(arg) >= 5
    /\ SubSeq(arg, 2, 4) = Marker

\* The i-th file the loop of main visits.
MdFile(i) == fs.entries[get_md_files(fs)[i]]

\* C4: the prompt is the preamble, then each note's body with the delimiter
\* right after it, in the order of the notes (the order the files were
\* listed), then the postamble; with no notes it is preamble and postamble.
C4_PromptLayout ==
    prompt # << >> =>
        LET pre == preprompt_summary
            d == note_delimiter
            n == Len(notes)
            start[i \in 1 .. n + 1] ==
                IF i = 1 THEN Len(pre)
                ELSE start[i - 1] + Len(notes[i - 1].content) + Len(d)
        IN  /\ SubSeq(prompt, 1, Len(pre)) = pre
            /\ \A i \in 1 .. n :
                  LET body == notes[i].content
                  IN  /\ SubSeq(prompt, start[i] + 1, start[i] + Len(body)) = body
                      /\ SubSeq(prompt, start[i] + Len(body) + 1, start[i + 1]) = d
                      /\ notes[i] = from_string(MdFile(i).text)
            /\ SubSeq(prompt, start[n + 1] + 1, Len(prompt)) = postprompt_summary
            /\ Len(prompt) = start[n + 1] + Len(postprompt_summary)
            /\ n = Len(get_md_files(fs))
            /\ n = 0 => prompt = pre \o postprompt_summary

C4_Witness ==
    /\ prompt # << >>
    /\ Len(notes) = 2
    /\ notes[1].content = << "T", " " >>
    /\ notes[2].content = << "H" >>

\* C5 as claimed: the delimiter occurs neither in the preamble nor in the
\* postamble, so a prompt built from no notes does not hold it.
C5_DelimiterNeverInFraming ==
    (prompt # << >> /\ notes = << >>) =>
        /\ Occurrences(note_delimiter, preprompt_summary) = {}
        /\ Occurrences(note_delimiter, postprompt_summary) = {}
        /\ Occurrences(note_delimiter, prompt) = {}

\* C5 as amended: the delimiter does not occur in the postamble and occurs
\* once in the preamble, which quotes it; a prompt built from no notes holds
\* it that one time.
C5_DelimiterQuotedOnce ==
    prompt # << >> =>
        /\ Occurrences(note_delimiter, postprompt_summary) = {}
        /\ Occurrences(note_delimiter, preprompt_summary) = {Len(preprompt_head) + 1}
        /\ notes = << >> =>
              Occurrences(note_delimiter, prompt) = {Len(preprompt_head) + 1}

C5_Witness ==
    /\ pc = "llm"
    /\ notes = << >>
    /\ prompt = preprompt_summary \o postprompt_summary

\* C6: llm returns one Result fixed by what the transport delivered: nothing
\* delivered is a TransportError; a status outside 200..299 is
\* GenerationRequestFailed whatever the body; a status inside is the decoded
\* response when the body fits LLMResponse and a ResponseDecodeError otherwise.
C6_LlmOutcome ==
    response # NoResult =>
        /\ ~net.delivered => response = Err("TransportError")
        /\ (net.delivered /\ net.status \notin 200 .. 299) =>
              response = Err("GenerationRequestFailed")
        /\ (net.delivered /\ net.status \in 200 .. 299 /\ deserializes(net.body)) =>
              /\ response.ok
              /\ response.err = "none"
              /\ Len(response.value) = 1
              /\ \A f \in DOMAIN Accepts :
                    response.value[1][f] = net.body.obj[f].v
        /\ (net.delivered /\ net.status \in 200 .. 299 /\ ~deserializes(net.body)) =>
              response = Err("ResponseDecodeError")

C6_Witness ==
    /\ response = Err("GenerationRequestFailed")
    /\ net.status = 500
    /\ net.body = BodyComplete

\* C7 as claimed: on a run that ends well, standard output holds the response
\* text (as println writes it) and nothing else.
C7_OnlyResponseWritten ==
    pc = "done" =>
        \/ stdout = response.value[1].response
        \/ stdout = println(response.value[1].response)

\* C7 as amended: on a run that ends well, standard output holds the line
\* "loading notes from: <dir>", the line "got <n> notes", and then the response
\* text of the decoded response as its last line, written once.
C7_ResponseWrittenLast ==
    pc = "done" =>
        /\ response.ok
        /\ response.value[1].response = net.body.obj["response"].v
        /\ stdout = println(LoadingPrefix \o path_to_dir)
                      \o println(GotPrefix \o to_string(Len(notes)) \o GotSuffix)
                      \o println(net.body.obj["response"].v)

C7_Witness ==
    /\ pc = "done"
    /\ net.body = BodyComplete
    /\ response.value[1].response = SummaryX
    /\ Len(notes) = 2

\* C8: a request is on the wire only when the directory listed, every listed
\* file was read and parsed, and the prompt sent is built from all of them; a
\* run ended by an unreadable file or a malformed document sent nothing.
C8_RequestAfterAllFiles ==
    /\ requests # << >> =>
          /\ fs.listable
          /\ md_files = << >>
          /\ Len(notes) = Len(get_md_files(fs))
          /\ \A i \in 1 .. Len(get_md_files(fs)) :
                /\ MdFile(i).readable
                /\ ~from_string(MdFile(i).text).panicked
                /\ notes[i] = from_string(MdFile(i).text)
          /\ \A k \in 1 .. Len(requests) :
                requests[k].json.prompt = construct_prompt(notes)
    /\ outcome \in {"DirListError", "FileReadError", "MalformedDocument"} =>
          requests = << >>

C8_Witness ==
    /\ outcome = "MalformedDocument"
    /\ Len(notes) = 1
    /\ requests = << >>

FailureKinds ==
    {"DirListError", "FileReadError", "MalformedDocument", "TransportError",
     "GenerationRequestFailed", "ResponseDecodeError"}

\* Standard output holds at most the two progress lines.
NoSummaryWritten ==
    \/ stdout = << >>
    \/ stdout = println(LoadingPrefix \o path_to_dir)
    \/ stdout = println(LoadingPrefix \o path_to_dir)
                  \o println(GotPrefix \o to_string(Len(notes)) \o GotSuffix)

\* C9: a failure of any component ends the run with a failure status, nothing
\* runs after it, and no summary is written; a run ends well only when nothing
\* failed, and a status of 500 always ends it as GenerationRequestFailed.
C9_FailureEndsRun ==
    /\ (outcome \in FailureKinds \/ pc = "panicked") =>
          /\ outcome \in FailureKinds
          /\ pc = "panicked"
          /\ exit_code = 101
          /\ NoSummaryWritten
          /\ ~ENABLED Next
    /\ ~NoSummaryWritten => (pc = "done" /\ outcome = "ok" /\ exit_code = 0)
    /\ pc \in {"println", "done"} =>
          /\ fs.listable
          /\ \A i \in 1 .. Len(get_md_files(fs)) :
                /\ MdFile(i).readable
                /\ (LeadingMarker(MdFile(i).text) =>
                       LaterMarkers(MdFile(i).text) # {})
          /\ net.delivered
          /\ net.status \in 200 .. 299
          /\ deserializes(net.body)
    /\ (pc = "unwrap" /\ ~response.ok) => ENABLED Unwrap /\ ~ENABLED PrintResponse
    /\ (net.delivered /\ net.status = 500 /\ pc \notin {"llm_return", "unwrap"}) =>
          outcome = "GenerationRequestFailed"

C9_Witness ==
    /\ outcome = "GenerationRequestFailed"
    /\ pc = "panicked"
    /\ net.status = 500
    /\ net.body = BodyComplete
    /\ NoSummaryWritten

\* C10: at most one request is ever sent, with stream = false, and once llm
\* has returned, whatever it returned, none is sent again.
C10_SingleRequest ==
    /\ Len(requests) <= 1
    /\ \A k \in 1 .. Len(requests) : requests[k].json.stream = FALSE
    /\ response # NoResult => (Len(requests) = 1 /\ ~ENABLED LlmSend)

C10_Witness ==
    /\ Len(requests) = 1
    /\ outcome = "TransportError"
    /\ pc = "panicked"

====
